---------------------------- MODULE Spec2Model ----------------------------
(***************************************************************************)
(* Model of the customer reconciliation core of customers-migration.       *)
(*                                                                         *)
(* Spec: CustomerMergeService.merge / diff (domain/services/               *)
(* customer-merge.service.ts) applied to Customer records                  *)
(* (domain/entities/customer.entity.ts).  The service is a pure function   *)
(* of its two arguments.  Init draws the two arguments from bounded sets   *)
(* of Customer records (or null), the actions Merge and Diff apply the     *)
(* service methods to them and store what the call returned or threw in    *)
(* `result`.                                                               *)
(*                                                                         *)
(* UcSpec: one execute() of a use case (GetCustomerByEmail, SyncCustomer,  *)
(* SearchCustomers, CheckHealth) over the two sources.  UcInit draws the   *)
(* use case, its argument and the contents of both sources; the actions    *)
(* are the calls the use case starts, the settling of each call in the     *)
(* adapter (SystemARepository, SystemBClient) and the resumption of the    *)
(* use case after each await.  CustomerController.findByEmail is the       *)
(* operation "httpGet"; UcFairSpec adds the fairness under which every     *)
(* issued call settles.                                                    *)
(*                                                                         *)
(* MockSpec: GetCustomerByEmail and CheckHealth with System B served by    *)
(* the embedded MockApiController, whose answer arrives after              *)
(* randomDelay() and is cut off by the client's timeout.                   *)
(***************************************************************************)
EXTENDS Integers, Sequences, FiniteSets, TLC

VARIABLES
    systemA,    \* first argument of merge/diff: Customer | null
    systemB,    \* second argument of merge/diff: Customer | null
    pc,         \* "ready" | "merged" | "diffed"; in a use case: "start" |
                \* "awaitBoth" | "awaitCrossRef" | "done"
    result,     \* what the call returned (kind "ok") or threw (kind "error")
    op,         \* the use case that is executing, "none" for a direct call
    input,      \* the argument of execute(): an email, a query, or NULL
    rowsA,      \* System A's table: email -> row | NoRow
    rowsB,      \* System B's data: email -> row | NoRow
    callA,      \* the promise of the call made to System A
    callB,      \* the promise of the call made to System B
    mapA,       \* search: email -> Customer from System A
    mapB,       \* search: email -> Customer from System B
    allEmails,  \* search: the emails of both maps, in insertion order
    crossRef,   \* search: crossRefPromises, each with how it settled
    engine,     \* the calls made to mergeService so far, in order
    dbOutcome,  \* what the database did with the query of callA
    httpOutcome, \* what the HTTP request of callB ended in
    issued,     \* the calls made to the two sources so far, in order
    latency,    \* ms the embedded mock System B waited before answering
                \* callB's request; 0 when the mock served none
    order       \* the calls that have settled, in the order they settled

svcVars == <<systemA, systemB>>
ucVars == <<op, input, rowsA, rowsB, callA, callB, mapA, mapB, allEmails,
            crossRef, engine, dbOutcome, httpOutcome, issued, latency,
            order>>
vars == <<systemA, systemB, pc, result, op, input, rowsA, rowsB, callA, callB,
          mapA, mapB, allEmails, crossRef, engine, dbOutcome, httpOutcome,
          issued, latency, order>>

-----------------------------------------------------------------------------
(* Values *)

\* JavaScript null as the value of a string field that is unset
NULL == "<null>"

\* JavaScript null in the place of a Customer (a record that is absent)
NoCustomer == [null |-> TRUE]

\* SourceSystem enum (domain/enums/source-system.enum.ts)
SYSTEM_A == "system_a"
SYSTEM_B == "system_b"
BOTH == "both"

\* largest lastUpdated instant drawn for an input record
MaxTime == 2

Times == 1..MaxTime

Emails == {"max@example.de"}
Names == {"Max Muller", "Max Mueller"}
Addresses == {NULL, "Addr A", "Addr B"}
Phones == {NULL, "", "+49 111"}
ContractStartDates == {NULL, "", "2020-01-01"}
ContractTypes == {NULL, "", "basic"}
SourceTags == {SYSTEM_A, SYSTEM_B}

\* new Customer(params): the entity copies its parameters; the email is stored
\* lower-cased and trimmed (the emails drawn here are already in that form)
Customer(params) ==
    [id |-> params.id, email |-> params.email, name |-> params.name,
     address |-> params.address, phone |-> params.phone,
     contractStartDate |-> params.contractStartDate,
     contractType |-> params.contractType,
     lastUpdated |-> params.lastUpdated, source |-> params.source]

\* the records a caller may pass in one argument position
Customers(id) ==
    { Customer([id |-> id, email |-> e, name |-> n, address |-> ad,
                phone |-> ph, contractStartDate |-> csd, contractType |-> ct,
                lastUpdated |-> lu, source |-> src]) :
        e \in Emails, n \in Names, ad \in Addresses, ph \in Phones,
        csd \in ContractStartDates, ct \in ContractTypes, lu \in Times,
        src \in SourceTags }

-----------------------------------------------------------------------------
(* JavaScript operators used by the service *)

\* truthiness of a string | null: null and "" are falsy
Truthy(v) == v # NULL /\ v # ""

\* x ?? y
Nullish(x, y) == IF x # NULL THEN x ELSE y

\* Date.prototype.toISOString of a valid Date
toISOString(d) == "2024-01-0" \o ToString(d) \o "T00:00:00.000Z"

-----------------------------------------------------------------------------
(* CustomerMergeService.mergeFromBothSystems, piece by piece *)

\* const nameConflict = systemA.name !== systemB.name
nameConflict(a, b) == a.name # b.name

\* mutant: the comparison admits equal timestamps
newerNameSource_Geq(a, b) ==
    IF b.lastUpdated >= a.lastUpdated THEN SYSTEM_B ELSE SYSTEM_A

\* const newerNameSource = systemB.lastUpdated > systemA.lastUpdated ? B : A
newerNameSource(a, b) ==
    IF b.lastUpdated > a.lastUpdated THEN SYSTEM_B ELSE SYSTEM_A

\* { source, conflict, ...(conflict && { systemAValue, systemBValue }) }
FieldMetadata(source, conflict, aVal, bVal) ==
    IF conflict
    THEN [source |-> source, conflict |-> TRUE,
          systemAValue |-> aVal, systemBValue |-> bVal]
    ELSE [source |-> source, conflict |-> FALSE]

\* fields['name']
nameField(a, b) ==
    FieldMetadata(IF nameConflict(a, b) THEN newerNameSource(a, b) ELSE BOTH,
                  nameConflict(a, b), a.name, b.name)

\* which source fields['phone'] names; NULL when the entry is not written
phoneSource(a, b) ==
    IF Truthy(b.phone) THEN SYSTEM_B
    ELSE IF Truthy(a.phone) THEN SYSTEM_A
    ELSE NULL

\* mutant: the two null guards are dropped
addressConflict_NoNullGuard(a, b) == a.address # b.address

\* const addressConflict = A.address !== B.address && A.address != null && B.address != null
addressConflict(a, b) ==
    a.address # b.address /\ a.address # NULL /\ b.address # NULL

\* fields['address']
addressField(a, b) ==
    FieldMetadata(SYSTEM_B, addressConflict(a, b), a.address, b.address)

\* which source fields['contractStartDate'] names; NULL when not written
contractStartDateSource(a, b) ==
    IF Truthy(a.contractStartDate) THEN SYSTEM_A
    ELSE IF Truthy(b.contractStartDate) THEN SYSTEM_B
    ELSE NULL

\* which source fields['contractType'] names; NULL when not written
contractTypeSource(a, b) ==
    IF Truthy(a.contractType) THEN SYSTEM_A
    ELSE IF Truthy(b.contractType) THEN SYSTEM_B
    ELSE NULL

\* the fields object of a two-source merge: name and address are always
\* written, the three optional entries only when a source was chosen
bothFields(a, b) ==
    LET src == [f \in {"phone", "contractStartDate", "contractType"} |->
                   CASE f = "phone" -> phoneSource(a, b)
                     [] f = "contractStartDate" -> contractStartDateSource(a, b)
                     [] f = "contractType" -> contractTypeSource(a, b)]
        keys == {"name", "address"} \cup {f \in DOMAIN src : src[f] # NULL}
    IN  [f \in keys |->
            CASE f = "name" -> nameField(a, b)
              [] f = "address" -> addressField(a, b)
              [] OTHER -> [source |-> src[f], conflict |-> FALSE]]

\* mutant: every() in place of some()
conflictsDetected_Every(fields) == \A f \in DOMAIN fields : fields[f].conflict

\* Object.values(fields).some((f) => f.conflict)
conflictsDetected(fields) == \E f \in DOMAIN fields : fields[f].conflict

\* mutant: the comparison admits equal timestamps
mergedName_Geq(a, b) == IF b.lastUpdated >= a.lastUpdated THEN b.name ELSE a.name

\* const mergedName = systemB.lastUpdated > systemA.lastUpdated ? B.name : A.name
mergedName(a, b) == IF b.lastUpdated > a.lastUpdated THEN b.name ELSE a.name

\* phone: systemB.phone ?? systemA.phone
mergedPhone(a, b) == Nullish(b.phone, a.phone)

\* address: systemB.address
mergedAddress(a, b) == b.address

\* mutant: || in place of ??
mergedContractStartDate_Or(a, b) ==
    IF Truthy(a.contractStartDate) THEN a.contractStartDate
    ELSE b.contractStartDate

\* contractStartDate: systemA.contractStartDate ?? systemB.contractStartDate
mergedContractStartDate(a, b) == Nullish(a.contractStartDate, b.contractStartDate)

\* contractType: systemA.contractType ?? systemB.contractType
mergedContractType(a, b) == Nullish(a.contractType, b.contractType)

\* _metadata.sources of a two-source merge
bothSources == <<SYSTEM_A, SYSTEM_B>>

mergeFromBothSystems(a, b) ==
    [kind |-> "ok",
     email |-> a.email,
     name |-> mergedName(a, b),
     phone |-> mergedPhone(a, b),
     address |-> mergedAddress(a, b),
     contractStartDate |-> mergedContractStartDate(a, b),
     contractType |-> mergedContractType(a, b),
     identifiers |-> [systemAId |-> a.id, systemBUuid |-> b.id],
     metadata |-> [sources |-> bothSources,
                   isPartial |-> FALSE,
                   conflictsDetected |-> conflictsDetected(bothFields(a, b)),
                   fields |-> bothFields(a, b)]]

-----------------------------------------------------------------------------
(* CustomerMergeService.buildSingleSourceResult *)

\* the fields object of a single-source result
singleFields(customer, source) ==
    LET keys == {"name"}
                \cup (IF Truthy(customer.address) THEN {"address"} ELSE {})
                \cup (IF Truthy(customer.phone) THEN {"phone"} ELSE {})
                \cup (IF Truthy(customer.contractStartDate)
                      THEN {"contractStartDate"} ELSE {})
                \cup (IF Truthy(customer.contractType)
                      THEN {"contractType"} ELSE {})
    IN  [f \in keys |-> [source |-> source, conflict |-> FALSE]]

\* mutant: systemAId is set whatever the source
singleIdentifiers_AlwaysA(customer, source) ==
    [systemAId |-> customer.id,
     systemBUuid |-> IF source = SYSTEM_B THEN customer.id ELSE NULL]

\* identifiers: each side is customer.id when `source` is that side, else null
singleIdentifiers(customer, source) ==
    [systemAId |-> IF source = SYSTEM_A THEN customer.id ELSE NULL,
     systemBUuid |-> IF source = SYSTEM_B THEN customer.id ELSE NULL]

buildSingleSourceResult(customer, source) ==
    [kind |-> "ok",
     email |-> customer.email,
     name |-> customer.name,
     phone |-> customer.phone,
     address |-> customer.address,
     contractStartDate |-> customer.contractStartDate,
     contractType |-> customer.contractType,
     identifiers |-> singleIdentifiers(customer, source),
     metadata |-> [sources |-> <<source>>,
                   isPartial |-> FALSE,
                   conflictsDetected |-> FALSE,
                   fields |-> singleFields(customer, source)]]

-----------------------------------------------------------------------------
(* CustomerMergeService.merge *)

\* throw new Error('Cannot merge: no customer data from either system')
MergeError ==
    [kind |-> "error", error |-> "Error",
     message |-> "Cannot merge: no customer data from either system"]

\* mutant: || in place of && in the guard of the throw
merge_ThrowsIfEitherAbsent(a, b) ==
    IF a = NoCustomer \/ b = NoCustomer THEN MergeError
    ELSE mergeFromBothSystems(a, b)

merge(a, b) ==
    IF a = NoCustomer /\ b = NoCustomer THEN MergeError
    ELSE IF a # NoCustomer /\ b = NoCustomer
         THEN buildSingleSourceResult(a, SYSTEM_A)
    ELSE IF a = NoCustomer /\ b # NoCustomer
         THEN buildSingleSourceResult(b, SYSTEM_B)
    ELSE mergeFromBothSystems(a, b)

-----------------------------------------------------------------------------
(* CustomerMergeService.diff *)

\* mutant: > in place of >=
newerSource_Strict(a, b) ==
    IF a.lastUpdated > b.lastUpdated THEN SYSTEM_A ELSE SYSTEM_B

\* const newerSource = systemA.lastUpdated >= systemB.lastUpdated ? A : B
newerSource(a, b) ==
    IF a.lastUpdated >= b.lastUpdated THEN SYSTEM_A ELSE SYSTEM_B

\* the five compared fields, in the order of the array literal
fieldsToCompare(a, b) ==
    << [field |-> "name", aVal |-> a.name, bVal |-> b.name],
       [field |-> "address", aVal |-> a.address, bVal |-> b.address],
       [field |-> "phone", aVal |-> a.phone, bVal |-> b.phone],
       [field |-> "contractStartDate", aVal |-> a.contractStartDate,
        bVal |-> b.contractStartDate],
       [field |-> "contractType", aVal |-> a.contractType,
        bVal |-> b.contractType] >>

\* mutant: || in place of && in the skip test
skipField_EitherNull(aVal, bVal) == aVal = NULL \/ bVal = NULL

\* mutant: falsiness in place of the null test
skipField_Falsy(aVal, bVal) == ~Truthy(aVal) /\ ~Truthy(bVal)

\* if (aVal == null && bVal == null) continue
skipField(aVal, bVal) == aVal = NULL /\ bVal = NULL

\* aVal === bVal
fieldMatches(aVal, bVal) == aVal = bVal

\* mutant: the two values change places
FieldConflict_Swapped(field, aVal, bVal, newer) ==
    [field |-> field, systemAValue |-> bVal, systemBValue |-> aVal,
     newerSource |-> newer]

\* the entry pushed to conflicts
FieldConflict(field, aVal, bVal, newer) ==
    [field |-> field, systemAValue |-> aVal, systemBValue |-> bVal,
     newerSource |-> newer]

\* the for-of loop over fieldsToCompare from index i on; acc holds
\* conflicts and matchedFields as built so far
RECURSIVE diffLoop(_, _, _, _)
diffLoop(fs, i, newer, acc) ==
    IF i > Len(fs) THEN acc
    ELSE LET f == fs[i]
         IN  IF skipField(f.aVal, f.bVal)
             THEN diffLoop(fs, i + 1, newer, acc)
             ELSE IF fieldMatches(f.aVal, f.bVal)
             THEN diffLoop(fs, i + 1, newer,
                      [acc EXCEPT !.matchedFields = Append(@, f.field)])
             ELSE diffLoop(fs, i + 1, newer,
                      [acc EXCEPT !.conflicts =
                          Append(@, FieldConflict(f.field, f.aVal, f.bVal, newer))])

\* mutant: the comparison is off by one
diffStatus_MoreThanOne(conflicts) ==
    IF Len(conflicts) > 1 THEN "conflicts_found" ELSE "in_sync"

\* status: conflicts.length > 0 ? 'conflicts_found' : 'in_sync'
diffStatus(conflicts) ==
    IF Len(conflicts) > 0 THEN "conflicts_found" ELSE "in_sync"

diff(a, b) ==
    LET acc == diffLoop(fieldsToCompare(a, b), 1, newerSource(a, b),
                        [conflicts |-> <<>>, matchedFields |-> <<"email">>])
    IN  [kind |-> "ok",
         email |-> a.email,
         status |-> diffStatus(acc.conflicts),
         lastUpdated |-> [systemA |-> toISOString(a.lastUpdated),
                          systemB |-> toISOString(b.lastUpdated)],
         conflicts |-> acc.conflicts,
         matchedFields |-> acc.matchedFields]

-----------------------------------------------------------------------------
(* The two sources: System A (SQLite repository) and System B (HTTP client) *)

\* a row that a source does not hold
NoRow == [absent |-> TRUE]

\* the emails the two sources may hold a row for
StoreEmails == {"max@example.de", "lisa@example.de"}

\* new Date(s) of a timestamp string written by toISOString
newDate(s) == CHOOSE d \in 1..9 : toISOString(d) = s

\* String.prototype.toLowerCase().trim() on the emails used here
toLowerCaseTrim(email) ==
    CASE email = "  Max@Example.DE  " -> "max@example.de"
      [] email = "MAX@EXAMPLE.DE" -> "max@example.de"
      [] OTHER -> email

\* Email.isValid: /^[^\s@]+@[^\s@]+\.[^\s@]+$/ on the emails used here; the
\* padded email has white space, "not-an-email" has no @
Email_isValid(email) ==
    CASE email = "max@example.de" -> TRUE
      [] email = "MAX@EXAMPLE.DE" -> TRUE
      [] email = "  Max@Example.DE  " -> FALSE
      [] email = "not-an-email" -> FALSE
      [] OTHER -> FALSE

\* LOWER(name) LIKE LOWER('%query%') / name.toLowerCase().includes(query
\* .toLowerCase()) on the names and queries used here
nameIncludes(name, query) ==
    CASE query = "max" -> TRUE
      [] query = "Mueller" -> name = "Max Mueller"
      [] query = "muller" -> name = "Max Muller"
      [] OTHER -> FALSE

\* the rows System A may hold for an email (customers_a has no phone column)
RowsA(email) ==
    { [id |-> "legacy_001", email |-> email, name |-> "Max Muller",
       address |-> "Addr A", contractStartDate |-> "2020-01-01",
       contractType |-> "basic", lastUpdated |-> toISOString(lu)] :
        lu \in Times }

\* the responses System B may give for an email (no contract fields)
RowsB(email) ==
    { [uuid |-> "modern_101", email |-> email, name |-> n,
       phone |-> "+49 111", address |-> "Addr B",
       last_updated |-> toISOString(lu)] :
        n \in Names, lu \in Times }

\* CustomerAMapper.toDomain
CustomerAMapper_toDomain(orm) ==
    Customer([id |-> orm.id, email |-> orm.email, name |-> orm.name,
              address |-> orm.address, phone |-> NULL,
              contractStartDate |-> orm.contractStartDate,
              contractType |-> orm.contractType,
              lastUpdated |-> newDate(orm.lastUpdated),
              source |-> SYSTEM_A])

\* CustomerBMapper.toDomain
CustomerBMapper_toDomain(data) ==
    Customer([id |-> data.uuid, email |-> data.email, name |-> data.name,
              address |-> data.address, phone |-> data.phone,
              contractStartDate |-> NULL, contractType |-> NULL,
              lastUpdated |-> newDate(data.last_updated),
              source |-> SYSTEM_B])

\* a promise: not created, pending, fulfilled with a value, or rejected
Idle == [st |-> "idle"]
Pending == [st |-> "pending"]
Fulfilled(v) == [st |-> "fulfilled", val |-> v]
Rejected(e) == [st |-> "rejected", err |-> e]

\* what the database does with one query: it answers or it throws
DbOutcomes == {"ok", "throws"}

\* what one HTTP request to System B ends in: a response, an error response
\* or a network failure, or no response within the timeout
HttpOutcomes == {"ok", "error", "timeout"}

\* the emails of the rows of `rows`, in table order
RowOrder == <<"max@example.de", "lisa@example.de">>

\* the row stored under the email, if any
rowAt(rows, email) == IF email \in DOMAIN rows THEN rows[email] ELSE NoRow

\* SystemARepository.findByEmail: findOne may throw; no row gives null
SystemARepository_findByEmail(rows, email, db) ==
    IF db = "throws" THEN Rejected("QueryFailedError")
    ELSE LET entity == rowAt(rows, toLowerCaseTrim(email))
         IN  IF entity = NoRow THEN Fulfilled(NoCustomer)
             ELSE Fulfilled(CustomerAMapper_toDomain(entity))

\* the emails of the rows whose name matches the query, in table order
matchingEmails(rows, query) ==
    SelectSeq(RowOrder,
              LAMBDA e : rows[e] # NoRow /\ nameIncludes(rows[e].name, query))

\* SystemARepository.searchByName: getMany may throw
SystemARepository_searchByName(rows, query, db) ==
    IF db = "throws" THEN Rejected("QueryFailedError")
    ELSE LET m == matchingEmails(rows, query)
         IN  Fulfilled([i \in 1..Len(m) |-> CustomerAMapper_toDomain(rows[m[i]])])

\* mutant: SELECT 1 without the try/catch
SystemARepository_isHealthy_Throws(db) ==
    IF db = "throws" THEN Rejected("QueryFailedError") ELSE Fulfilled(TRUE)

\* SystemARepository.isHealthy: SELECT 1 in a try/catch
SystemARepository_isHealthy(db) ==
    IF db = "throws" THEN Fulfilled(FALSE) ELSE Fulfilled(TRUE)

\* SystemBClient.findByEmail: GET /customers/:email; timeout, error
\* responses (404 included) and thrown errors all give null
SystemBClient_findByEmail(rows, email, http) ==
    IF http # "ok" THEN Fulfilled(NoCustomer)
    ELSE LET data == rowAt(rows, toLowerCaseTrim(email))
         IN  IF data = NoRow THEN Fulfilled(NoCustomer)
             ELSE Fulfilled(CustomerBMapper_toDomain(data))

\* SystemBClient.searchByName: GET /customers?q=; failures give []
SystemBClient_searchByName(rows, query, http) ==
    IF http # "ok" THEN Fulfilled(<<>>)
    ELSE LET m == matchingEmails(rows, query)
         IN  Fulfilled([i \in 1..Len(m) |-> CustomerBMapper_toDomain(rows[m[i]])])

\* SystemBClient.isHealthy: GET /ping; true only for { status: 'ok' }
SystemBClient_isHealthy(http) ==
    IF http = "ok" THEN Fulfilled(TRUE) ELSE Fulfilled(FALSE)

\* the timeouts of SystemBClient: timeout(this.TIMEOUT_MS) on the lookups,
\* timeout(3000) on the health probe
TIMEOUT_MS == 5000
PingTimeoutMs == 3000

\* the numbers of randomDelay in the embedded mock of System B
DelaySpreadMs == 300
DelayBaseMs == 20000

\* Math.random() takes the values k / RandomSteps, k in 0..RandomSteps-1
RandomSteps == 3
RandomDraws == 0..(RandomSteps - 1)

\* randomDelay: Math.floor(Math.random() * 300) + 20000
randomDelay(k) == ((k * DelaySpreadMs) \div RandomSteps) + DelayBaseMs

\* rxjs timeout(ms) on a response that arrives after `delay` ms
timeoutOutcome(delay, ms) == IF delay < ms THEN "ok" ELSE "timeout"

-----------------------------------------------------------------------------
(* The state machine: one call of the service on the drawn arguments *)

NoResult == [kind |-> "none"]

\* no use case is executing: the service is called directly
NoUseCase ==
    /\ op = "none"
    /\ input = NULL
    /\ rowsA = [e \in StoreEmails |-> NoRow]
    /\ rowsB = [e \in StoreEmails |-> NoRow]
    /\ callA = Idle
    /\ callB = Idle
    /\ mapA = <<>>
    /\ mapB = <<>>
    /\ allEmails = <<>>
    /\ crossRef = {}
    /\ engine = <<>>
    /\ dbOutcome = "none"
    /\ httpOutcome = "none"
    /\ issued = <<>>
    /\ latency = 0
    /\ order = <<>>

\* The arguments of one call.  merge takes Customer | null twice; a lone
\* record is drawn with either source tag, and two records passed together
\* are one of each source, in the order of the parameters.
Init ==
    /\ systemA \in Customers("id-a") \cup {NoCustomer}
    /\ systemB \in Customers("uuid-b") \cup {NoCustomer}
    /\ (systemA # NoCustomer /\ systemB # NoCustomer) =>
           (systemA.source = SYSTEM_A /\ systemB.source = SYSTEM_B)
    /\ pc = "ready"
    /\ result = NoResult
    /\ NoUseCase

\* mergeService.merge(systemA, systemB)
Merge ==
    /\ pc = "ready"
    /\ result' = merge(systemA, systemB)
    /\ pc' = "merged"
    /\ UNCHANGED <<systemA, systemB>>
    /\ UNCHANGED ucVars

\* mergeService.diff(systemA, systemB): the signature takes two Customers
Diff ==
    /\ pc = "ready"
    /\ systemA # NoCustomer
    /\ systemB # NoCustomer
    /\ result' = diff(systemA, systemB)
    /\ pc' = "diffed"
    /\ UNCHANGED <<systemA, systemB>>
    /\ UNCHANGED ucVars

Next == Merge \/ Diff

Spec == Init /\ [][Next]_vars

-----------------------------------------------------------------------------
(* The use cases: GetCustomerByEmail, SyncCustomer, SearchCustomers,
   CheckHealth *)

\* throw new CustomerNotFoundException(normalizedEmail)
CustomerNotFound(email) ==
    [kind |-> "error", error |-> "CustomerNotFoundException", email |-> email]

\* the rejection of Promise.all: the error of the promise that rejected
Propagated(err) == [kind |-> "error", error |-> err]

\* one call of a mergeService method, as recorded in engine
EngineCall(fn, a, b) == [fn |-> fn, a |-> a, b |-> b]

\* (!a && b) || (a && !b)
exactlyOne(a, b) ==
    (a = NoCustomer /\ b # NoCustomer) \/ (a # NoCustomer /\ b = NoCustomer)

\* mutant: the flag is left as merge set it
markPartial_Never(merged, a, b) == merged

\* result._metadata.isPartial = true when exactly one record was found
markPartial(merged, a, b) ==
    IF exactlyOne(a, b) THEN [merged EXCEPT !.metadata.isPartial = TRUE]
    ELSE merged

\* mutant: || in place of && in the guard of the throw
getCustomerByEmail_NotFoundIfEitherAbsent(email, a, b) ==
    IF a = NoCustomer \/ b = NoCustomer THEN CustomerNotFound(email)
    ELSE merge(a, b)

\* GetCustomerByEmailUseCase.execute after the await
getCustomerByEmail(email, a, b) ==
    IF a = NoCustomer /\ b = NoCustomer THEN CustomerNotFound(email)
    ELSE markPartial(merge(a, b), a, b)

\* the mergeService calls GetCustomerByEmailUseCase.execute makes
getCustomerByEmailEngine(a, b) ==
    IF a = NoCustomer /\ b = NoCustomer THEN <<>>
    ELSE <<EngineCall("merge", a, b)>>

\* mutant: matchedFields seeded with 'email' as diff does
singleSourceOnly_EmailMatched(email, presentIn, lastUpdatedA, lastUpdatedB) ==
    [kind |-> "ok",
     email |-> email,
     status |-> "single_source_only",
     presentIn |-> presentIn,
     lastUpdated |-> [systemA |-> lastUpdatedA, systemB |-> lastUpdatedB],
     conflicts |-> <<>>,
     matchedFields |-> <<"email">>]

\* the single_source_only literal of SyncCustomerUseCase.execute
singleSourceOnly(email, presentIn, lastUpdatedA, lastUpdatedB) ==
    [kind |-> "ok",
     email |-> email,
     status |-> "single_source_only",
     presentIn |-> presentIn,
     lastUpdated |-> [systemA |-> lastUpdatedA, systemB |-> lastUpdatedB],
     conflicts |-> <<>>,
     matchedFields |-> <<>>]

\* mutant: presentIn names the other source
syncCustomer_PresentInSwapped(email, a, b) ==
    IF a = NoCustomer /\ b = NoCustomer THEN CustomerNotFound(email)
    ELSE IF a # NoCustomer /\ b = NoCustomer
         THEN singleSourceOnly(email, SYSTEM_B, toISOString(a.lastUpdated), NULL)
    ELSE IF a = NoCustomer /\ b # NoCustomer
         THEN singleSourceOnly(email, SYSTEM_A, NULL, toISOString(b.lastUpdated))
    ELSE diff(a, b)

\* SyncCustomerUseCase.execute after the await
syncCustomer(email, a, b) ==
    IF a = NoCustomer /\ b = NoCustomer THEN CustomerNotFound(email)
    ELSE IF a # NoCustomer /\ b = NoCustomer
         THEN singleSourceOnly(email, SYSTEM_A, toISOString(a.lastUpdated), NULL)
    ELSE IF a = NoCustomer /\ b # NoCustomer
         THEN singleSourceOnly(email, SYSTEM_B, NULL, toISOString(b.lastUpdated))
    ELSE diff(a, b)

\* the mergeService calls SyncCustomerUseCase.execute makes
syncCustomerEngine(a, b) ==
    IF a # NoCustomer /\ b # NoCustomer THEN <<EngineCall("diff", a, b)>>
    ELSE <<>>

\* new Map(); for (const c of customers) map.set(c.email, c)
RECURSIVE mapByEmail(_, _, _)
mapByEmail(customers, i, map) ==
    IF i > Len(customers) THEN map
    ELSE mapByEmail(customers, i + 1,
             [e \in DOMAIN map \cup {customers[i].email} |->
                 IF e = customers[i].email THEN customers[i] ELSE map[e]])

\* mutant: the record that was looked up is not stored
mapSet_Dropped(map, email, c) == map

\* map.set(email, c) on a map that may or may not have the key
mapSet(map, email, c) ==
    [e \in DOMAIN map \cup {email} |-> IF e = email THEN c ELSE map[e]]

\* mutant: the lookup map is not consulted
mapGet_Missing(map, email) == NoCustomer

\* map.get(email) ?? null
mapGet(map, email) == IF email \in DOMAIN map THEN map[email] ELSE NoCustomer

\* [...map.keys()] of a map built by mapByEmail: keys in insertion order
RECURSIVE mapKeys(_, _, _)
mapKeys(customers, i, keys) ==
    IF i > Len(customers) THEN keys
    ELSE mapKeys(customers, i + 1,
             IF \E j \in DOMAIN keys : keys[j] = customers[i].email
             THEN keys ELSE Append(keys, customers[i].email))

\* mutant: the keys of mapB are spread first
unionEmails_BFirst(customersA, customersB) ==
    mapKeys(customersA, 1, mapKeys(customersB, 1, <<>>))

\* mutant: an array of the keys of both maps in place of a Set
unionEmails_Concat(customersA, customersB) ==
    mapKeys(customersA, 1, <<>>) \o mapKeys(customersB, 1, <<>>)

\* new Set([...mapA.keys(), ...mapB.keys()]), in insertion order
unionEmails(customersA, customersB) ==
    mapKeys(customersB, 1, mapKeys(customersA, 1, <<>>))

\* a call of a method of a source
SourceCall(side, fn, arg) == [side |-> side, fn |-> fn, arg |-> arg]

\* mutant: both sides are looked up for every email
RECURSIVE crossRefCalls_BothSidesAlways(_, _, _, _)
crossRefCalls_BothSidesAlways(emails, i, ma, mb) ==
    IF i > Len(emails) THEN <<>>
    ELSE <<SourceCall(SYSTEM_A, "findByEmail", emails[i]),
           SourceCall(SYSTEM_B, "findByEmail", emails[i])>>
         \o crossRefCalls_BothSidesAlways(emails, i + 1, ma, mb)

\* the findByEmail calls of the cross-reference loop, in the order the loop
\* makes them: for each email, System A's if mapA lacks the email, then
\* System B's if mapB lacks it
RECURSIVE crossRefCalls(_, _, _, _)
crossRefCalls(emails, i, ma, mb) ==
    IF i > Len(emails) THEN <<>>
    ELSE (IF emails[i] \notin DOMAIN ma
          THEN <<SourceCall(SYSTEM_A, "findByEmail", emails[i])>> ELSE <<>>)
         \o (IF emails[i] \notin DOMAIN mb
             THEN <<SourceCall(SYSTEM_B, "findByEmail", emails[i])>> ELSE <<>>)
         \o crossRefCalls(emails, i + 1, ma, mb)

\* crossRefPromises: one pending promise per call of the loop
crossRefLookups(emails, ma, mb) ==
    LET calls == crossRefCalls(emails, 1, ma, mb)
    IN  { [side |-> calls[i].side, email |-> calls[i].arg,
           outcome |-> "pending"] : i \in DOMAIN calls }

\* how findByEmail(email).then(c => { if (c) map.set(email, c) })
\* .catch(() => {}) settles: with a record set, with nothing found, or with
\* the rejection swallowed
crossRefOutcome(p) ==
    IF p.st = "rejected" THEN "caught"
    ELSE IF p.val # NoCustomer THEN "record" ELSE "absent"

\* the loop that merges every email of allEmails
searchResults(emails, ma, mb) ==
    [i \in DOMAIN emails |->
        markPartial(merge(mapGet(ma, emails[i]), mapGet(mb, emails[i])),
                    mapGet(ma, emails[i]), mapGet(mb, emails[i]))]

\* the mergeService calls of that loop
searchEngine(emails, ma, mb) ==
    [i \in DOMAIN emails |->
        EngineCall("merge", mapGet(ma, emails[i]), mapGet(mb, emails[i]))]

\* Promise.all([callA, callB]) has settled: one promise rejected or both
\* are fulfilled
allSettled == callA.st = "rejected" \/ callB.st = "rejected"
              \/ (callA.st = "fulfilled" /\ callB.st = "fulfilled")

\* the rejection Promise.all passes on
firstRejection == IF callA.st = "rejected" THEN callA.err ELSE callB.err

anyRejected == callA.st = "rejected" \/ callB.st = "rejected"

\* the arguments execute() is called with
InputEmails == {"max@example.de", "  Max@Example.DE  ", "not-an-email"}
Queries == {"max", "Mueller", "muller", "Schmidt"}

\* the tables a source may hold: for each email a row of that email or none
TablesA ==
    { t \in [StoreEmails -> UNION {RowsA(e) : e \in StoreEmails} \cup {NoRow}] :
        \A e \in StoreEmails : t[e] = NoRow \/ t[e].email = e }
TablesB ==
    { t \in [StoreEmails -> UNION {RowsB(e) : e \in StoreEmails} \cup {NoRow}] :
        \A e \in StoreEmails : t[e] = NoRow \/ t[e].email = e }

\* the operations that look one email up in both sources: the two use cases
\* called directly, and GetCustomerByEmail called by the controller
FindOps == {"getByEmail", "httpGet", "sync"}

\* one execute() of one use case on some contents of the two sources
UcInit ==
    /\ systemA = NoCustomer
    /\ systemB = NoCustomer
    /\ pc = "start"
    /\ result = NoResult
    /\ op \in {"getByEmail", "httpGet", "sync", "search", "health"}
    /\ input \in CASE op \in FindOps -> InputEmails
                  [] op = "search" -> Queries
                  [] OTHER -> {NULL}
    /\ rowsA \in TablesA
    /\ rowsB \in TablesB
    /\ callA = Idle
    /\ callB = Idle
    /\ mapA = <<>>
    /\ mapB = <<>>
    /\ allEmails = <<>>
    /\ crossRef = {}
    /\ engine = <<>>
    /\ dbOutcome = "none"
    /\ httpOutcome = "none"
    /\ issued = <<>>
    /\ latency = 0
    /\ order = <<>>

searchVars == <<mapA, mapB, allEmails, crossRef>>

\* mutant: only System A's call is made
startBoth_OnlyA(fn, arg) == <<SourceCall(SYSTEM_A, fn, arg)>>

\* the array literal [this.systemA.fn(arg), this.systemB.fn(arg)] handed to
\* Promise.all: both calls are made, A's first, before anything is awaited
startBoth(fn, arg) ==
    <<SourceCall(SYSTEM_A, fn, arg), SourceCall(SYSTEM_B, fn, arg)>>

\* the promise of the call made to `side`, if one was made
promiseOf(calls, side) ==
    IF \E i \in DOMAIN calls : calls[i].side = side THEN Pending ELSE Idle

\* throw new BadRequestException(`Invalid email format: ${email}`)
BadRequest(email) ==
    [kind |-> "error", error |-> "BadRequestException", email |-> email]

\* Promise.all([systemA.findByEmail(e), systemB.findByEmail(e)]) of
\* GetCustomerByEmailUseCase.execute: both calls are started
GetByEmail_Call ==
    /\ pc = "start" /\ op = "getByEmail"
    /\ LET calls == startBoth("findByEmail", toLowerCaseTrim(input))
       IN  /\ issued' = issued \o calls
           /\ callA' = promiseOf(calls, SYSTEM_A)
           /\ callB' = promiseOf(calls, SYSTEM_B)
    /\ pc' = "awaitBoth"
    /\ UNCHANGED <<svcVars, latency, order, result, op, input, rowsA, rowsB, searchVars, engine,
                   dbOutcome, httpOutcome>>

\* CustomerController.findByEmail: the raw path parameter is validated, then
\* GetCustomerByEmailUseCase.execute is called and starts both lookups
Controller_findByEmail ==
    /\ pc = "start" /\ op = "httpGet"
    /\ IF ~Email_isValid(input)
       THEN /\ result' = BadRequest(input)
            /\ pc' = "done"
            /\ UNCHANGED <<callA, callB, issued>>
       ELSE /\ LET calls == startBoth("findByEmail", toLowerCaseTrim(input))
               IN  /\ issued' = issued \o calls
                   /\ callA' = promiseOf(calls, SYSTEM_A)
                   /\ callB' = promiseOf(calls, SYSTEM_B)
            /\ pc' = "awaitBoth"
            /\ UNCHANGED result
    /\ UNCHANGED <<svcVars, latency, order, op, input, rowsA, rowsB, searchVars, engine,
                   dbOutcome, httpOutcome>>

\* the same Promise.all of SyncCustomerUseCase.execute
Sync_Call ==
    /\ pc = "start" /\ op = "sync"
    /\ LET calls == startBoth("findByEmail", toLowerCaseTrim(input))
       IN  /\ issued' = issued \o calls
           /\ callA' = promiseOf(calls, SYSTEM_A)
           /\ callB' = promiseOf(calls, SYSTEM_B)
    /\ pc' = "awaitBoth"
    /\ UNCHANGED <<svcVars, latency, order, result, op, input, rowsA, rowsB, searchVars, engine,
                   dbOutcome, httpOutcome>>

\* Promise.all([systemA.searchByName(q), systemB.searchByName(q)])
Search_Call ==
    /\ pc = "start" /\ op = "search"
    /\ LET calls == startBoth("searchByName", input)
       IN  /\ issued' = issued \o calls
           /\ callA' = promiseOf(calls, SYSTEM_A)
           /\ callB' = promiseOf(calls, SYSTEM_B)
    /\ pc' = "awaitBoth"
    /\ UNCHANGED <<svcVars, latency, order, result, op, input, rowsA, rowsB, searchVars, engine,
                   dbOutcome, httpOutcome>>

\* Promise.all([systemA.isHealthy(), systemB.isHealthy()])
Health_Call ==
    /\ pc = "start" /\ op = "health"
    /\ LET calls == startBoth("isHealthy", NULL)
       IN  /\ issued' = issued \o calls
           /\ callA' = promiseOf(calls, SYSTEM_A)
           /\ callB' = promiseOf(calls, SYSTEM_B)
    /\ pc' = "awaitBoth"
    /\ UNCHANGED <<svcVars, latency, order, result, op, input, rowsA, rowsB, searchVars, engine,
                   dbOutcome, httpOutcome>>

\* an entry of `order`: the call to `side` settled; email is that of a
\* cross-reference lookup, NULL for a call of the first Promise.all
SettledCall(side, email) == [side |-> side, email |-> email]

\* System A's call settles
SystemA_Settles ==
    /\ pc = "awaitBoth" /\ callA = Pending
    /\ \E db \in DbOutcomes :
         /\ callA' = CASE op \in FindOps ->
                        SystemARepository_findByEmail(
                            rowsA, toLowerCaseTrim(input), db)
                    [] op = "search" ->
                        SystemARepository_searchByName(rowsA, input, db)
                    [] OTHER -> SystemARepository_isHealthy(db)
         /\ dbOutcome' = db
         /\ order' = Append(order, SettledCall(SYSTEM_A, NULL))
    /\ UNCHANGED <<svcVars, latency, pc, result, op, input, rowsA, rowsB, callB,
                   searchVars, engine, httpOutcome, issued>>

\* System B's call settles
SystemB_Settles ==
    /\ pc = "awaitBoth" /\ callB = Pending
    /\ \E http \in HttpOutcomes :
         /\ callB' = CASE op \in FindOps ->
                        SystemBClient_findByEmail(
                            rowsB, toLowerCaseTrim(input), http)
                    [] op = "search" ->
                        SystemBClient_searchByName(rowsB, input, http)
                    [] OTHER -> SystemBClient_isHealthy(http)
         /\ httpOutcome' = http
         /\ order' = Append(order, SettledCall(SYSTEM_B, NULL))
    /\ UNCHANGED <<svcVars, latency, pc, result, op, input, rowsA, rowsB, callA,
                   searchVars, engine, dbOutcome, issued>>

\* GetCustomerByEmailUseCase.execute resumes after the await
GetByEmail_Return ==
    /\ pc = "awaitBoth" /\ op \in {"getByEmail", "httpGet"} /\ allSettled
    /\ IF anyRejected
       THEN /\ result' = Propagated(firstRejection)
            /\ engine' = engine
       ELSE /\ result' = getCustomerByEmail(toLowerCaseTrim(input),
                                            callA.val, callB.val)
            /\ engine' = engine \o getCustomerByEmailEngine(callA.val, callB.val)
    /\ pc' = "done"
    /\ UNCHANGED <<svcVars, latency, order, op, input, rowsA, rowsB, callA, callB, searchVars,
                   dbOutcome, httpOutcome, issued>>

\* SyncCustomerUseCase.execute resumes after the await
Sync_Return ==
    /\ pc = "awaitBoth" /\ op = "sync" /\ allSettled
    /\ IF anyRejected
       THEN /\ result' = Propagated(firstRejection)
            /\ engine' = engine
       ELSE /\ result' = syncCustomer(toLowerCaseTrim(input),
                                      callA.val, callB.val)
            /\ engine' = engine \o syncCustomerEngine(callA.val, callB.val)
    /\ pc' = "done"
    /\ UNCHANGED <<svcVars, latency, order, op, input, rowsA, rowsB, callA, callB, searchVars,
                   dbOutcome, httpOutcome, issued>>

\* SearchCustomersUseCase.execute resumes after the first await: it builds
\* the two maps and the set of emails and starts the cross-reference lookups
Search_CrossReference ==
    /\ pc = "awaitBoth" /\ op = "search" /\ allSettled
    /\ IF anyRejected
       THEN /\ result' = Propagated(firstRejection)
            /\ pc' = "done"
            /\ UNCHANGED <<searchVars, issued>>
       ELSE /\ mapA' = mapByEmail(callA.val, 1, <<>>)
            /\ mapB' = mapByEmail(callB.val, 1, <<>>)
            /\ allEmails' = unionEmails(callA.val, callB.val)
            /\ crossRef' = crossRefLookups(allEmails', mapA', mapB')
            /\ issued' = issued \o crossRefCalls(allEmails', 1, mapA', mapB')
            /\ pc' = "awaitCrossRef"
            /\ UNCHANGED result
    /\ UNCHANGED <<svcVars, latency, order, op, input, rowsA, rowsB, callA, callB, engine,
                   dbOutcome, httpOutcome>>

\* a cross-reference lookup of System A settles: .then sets the map when a
\* record came back, .catch swallows a rejection
CrossRefA_Settles ==
    /\ pc = "awaitCrossRef"
    /\ \E c \in crossRef, db \in DbOutcomes :
         /\ c.side = SYSTEM_A /\ c.outcome = "pending"
         /\ order' = Append(order, SettledCall(SYSTEM_A, c.email))
         /\ LET p == SystemARepository_findByEmail(rowsA, c.email, db)
            IN  /\ mapA' = IF crossRefOutcome(p) = "record"
                           THEN mapSet(mapA, c.email, p.val) ELSE mapA
                /\ crossRef' = (crossRef \ {c}) \cup
                        {[c EXCEPT !.outcome = crossRefOutcome(p)]}
    /\ UNCHANGED <<svcVars, latency, pc, result, op, input, rowsA, rowsB, callA, callB,
                   mapB, allEmails, engine, dbOutcome, httpOutcome, issued>>

\* a cross-reference lookup of System B settles
CrossRefB_Settles ==
    /\ pc = "awaitCrossRef"
    /\ \E c \in crossRef, http \in HttpOutcomes :
         /\ c.side = SYSTEM_B /\ c.outcome = "pending"
         /\ order' = Append(order, SettledCall(SYSTEM_B, c.email))
         /\ LET p == SystemBClient_findByEmail(rowsB, c.email, http)
            IN  /\ mapB' = IF crossRefOutcome(p) = "record"
                           THEN mapSet(mapB, c.email, p.val) ELSE mapB
                /\ crossRef' = (crossRef \ {c}) \cup
                        {[c EXCEPT !.outcome = crossRefOutcome(p)]}
    /\ UNCHANGED <<svcVars, latency, pc, result, op, input, rowsA, rowsB, callA, callB,
                   mapA, allEmails, engine, dbOutcome, httpOutcome, issued>>

\* SearchCustomersUseCase.execute resumes after await Promise.all(
\* crossRefPromises) and merges every email
Search_Return ==
    /\ pc = "awaitCrossRef"
    /\ \A c \in crossRef : c.outcome # "pending"
    /\ result' = [kind |-> "ok", list |-> searchResults(allEmails, mapA, mapB)]
    /\ engine' = engine \o searchEngine(allEmails, mapA, mapB)
    /\ pc' = "done"
    /\ UNCHANGED <<svcVars, latency, order, op, input, rowsA, rowsB, callA, callB, searchVars,
                   dbOutcome, httpOutcome, issued>>

\* CheckHealthUseCase.execute resumes after the await
Health_Return ==
    /\ pc = "awaitBoth" /\ op = "health" /\ allSettled
    /\ result' = IF anyRejected THEN Propagated(firstRejection)
                 ELSE [kind |-> "ok", systemA |-> callA.val, systemB |-> callB.val]
    /\ pc' = "done"
    /\ UNCHANGED <<svcVars, latency, order, op, input, rowsA, rowsB, callA, callB, searchVars,
                   engine, dbOutcome, httpOutcome, issued>>

UcNext ==
    \/ GetByEmail_Call \/ Controller_findByEmail \/ Sync_Call \/ Search_Call \/ Health_Call
    \/ SystemA_Settles \/ SystemB_Settles
    \/ GetByEmail_Return \/ Sync_Return
    \/ Search_CrossReference \/ CrossRefA_Settles \/ CrossRefB_Settles
    \/ Search_Return
    \/ Health_Return

UcSpec == UcInit /\ [][UcNext]_vars

\* every call that was issued eventually settles and the event loop runs
\* every continuation that is ready
UcFairSpec == UcSpec /\ WF_vars(UcNext)

-----------------------------------------------------------------------------
(* The deployment with the embedded mock: System B is MockApiController *)

\* GetCustomerByEmail or CheckHealth against the embedded mock
MockInit == UcInit /\ op \in {"getByEmail", "health"}

\* the request of callB is served by MockApiController: it answers after
\* randomDelay(), and the client gives up at its timeout
MockB_Settles ==
    /\ pc = "awaitBoth" /\ callB = Pending
    /\ \E k \in RandomDraws :
         LET delay == randomDelay(k)
             http == timeoutOutcome(delay, IF op = "health" THEN PingTimeoutMs
                                           ELSE TIMEOUT_MS)
         IN  /\ latency' = delay
             /\ httpOutcome' = http
             /\ order' = Append(order, SettledCall(SYSTEM_B, NULL))
             /\ callB' = IF op = "health" THEN SystemBClient_isHealthy(http)
                         ELSE SystemBClient_findByEmail(
                                  rowsB, toLowerCaseTrim(input), http)
    /\ UNCHANGED <<svcVars, pc, result, op, input, rowsA, rowsB, callA,
                   searchVars, engine, dbOutcome, issued>>

MockNext ==
    \/ GetByEmail_Call \/ Health_Call
    \/ SystemA_Settles \/ MockB_Settles
    \/ GetByEmail_Return \/ Health_Return

MockSpec == MockInit /\ [][MockNext]_vars


-----------------------------------------------------------------------------
(* Properties of merge *)

Merged == pc = "merged"
Diffed == pc = "diffed"
BothPresent == systemA # NoCustomer /\ systemB # NoCustomer
BothAbsent == systemA = NoCustomer /\ systemB = NoCustomer
OnlyA == systemA # NoCustomer /\ systemB = NoCustomer
OnlyB == systemA = NoCustomer /\ systemB # NoCustomer

\* C1: merge(null, null) throws the "Cannot merge" error and returns no
\* unified record; merge with at least one record present returns a unified
\* record and never throws.
C1_MergeThrowsIffBothAbsent ==
    Merged =>
        /\ BothAbsent => result = MergeError
        /\ ~BothAbsent => result.kind = "ok" /\ "metadata" \in DOMAIN result

C1_Witness == Merged /\ BothAbsent /\ result.kind = "error"

\* C2 as stated: a single-source merge reports the record's own source tag:
\* sources = [a.source] and only the identifier on the side of a.source is
\* set, to a.id; isPartial and conflictsDetected are false.
C2_SingleSourceByTag ==
    Merged /\ (OnlyA \/ OnlyB) =>
        LET c == IF OnlyA THEN systemA ELSE systemB
        IN  /\ result.metadata.sources = <<c.source>>
            /\ result.identifiers =
                 [systemAId |-> IF c.source = SYSTEM_A THEN c.id ELSE NULL,
                  systemBUuid |-> IF c.source = SYSTEM_B THEN c.id ELSE NULL]
            /\ ~result.metadata.isPartial
            /\ ~result.metadata.conflictsDetected

\* C2 as amended: a single-source merge reports the argument position the
\* record was passed in, whatever the record's own source tag: merge(a, null)
\* gives sources = [system_a], systemAId = a.id and systemBUuid = null;
\* merge(null, b) gives sources = [system_b], systemBUuid = b.id and
\* systemAId = null; isPartial and conflictsDetected are false in both.
C2_SingleSourceByPosition ==
    Merged =>
        /\ OnlyA =>
             /\ result.metadata.sources = <<SYSTEM_A>>
             /\ result.identifiers =
                  [systemAId |-> systemA.id, systemBUuid |-> NULL]
             /\ ~result.metadata.isPartial
             /\ ~result.metadata.conflictsDetected
        /\ OnlyB =>
             /\ result.metadata.sources = <<SYSTEM_B>>
             /\ result.identifiers =
                  [systemAId |-> NULL, systemBUuid |-> systemB.id]
             /\ ~result.metadata.isPartial
             /\ ~result.metadata.conflictsDetected

C2_Witness ==
    /\ Merged /\ OnlyA
    /\ systemA.source = SYSTEM_B
    /\ result.metadata.sources = <<SYSTEM_A>>
    /\ result.identifiers.systemAId = systemA.id

\* C3: in a two-source merge the merged address is B's address; the address
\* entry is flagged as a conflict exactly when both addresses are non-null
\* and differ; the systemAValue/systemBValue pair is attached exactly when
\* the entry is flagged, and then holds the two addresses.
C3_AddressFromBConflictIffDiffer ==
    Merged /\ BothPresent =>
        LET m == result.metadata.fields["address"]
            differ == /\ systemA.address # NULL
                      /\ systemB.address # NULL
                      /\ systemA.address # systemB.address
        IN  /\ result.address = systemB.address
            /\ m.conflict <=> differ
            /\ m.conflict <=> "systemAValue" \in DOMAIN m
            /\ m.conflict <=> "systemBValue" \in DOMAIN m
            /\ m.conflict => /\ m.systemAValue = systemA.address
                             /\ m.systemBValue = systemB.address

C3_Witness ==
    /\ Merged /\ BothPresent
    /\ systemA.address = "Addr A" /\ systemB.address = "Addr B"
    /\ result.metadata.fields["address"].conflict
    /\ result.address = "Addr B"

\* C4: in a two-source merge the merged phone is B's phone when B's phone is
\* present and non-empty, and A's phone otherwise (also when B's phone is
\* the empty string); the phone entry is never flagged as a conflict.
C4_PhoneFromBUnlessEmpty ==
    Merged /\ BothPresent =>
        /\ result.phone = IF Truthy(systemB.phone) THEN systemB.phone
                          ELSE systemA.phone
        /\ "phone" \in DOMAIN result.metadata.fields =>
               ~result.metadata.fields["phone"].conflict

C6_NameFromStrictlyNewer ==
    Merged /\ BothPresent =>
        /\ systemB.lastUpdated > systemA.lastUpdated =>
               result.name = systemB.name
        /\ systemB.lastUpdated <= systemA.lastUpdated =>
               result.name = systemA.name
        /\ systemA.name # systemB.name =>
               (result.name = systemB.name
                    <=> systemB.lastUpdated > systemA.lastUpdated)

C6_Witness ==
    /\ Merged /\ BothPresent
    /\ systemA.lastUpdated = systemB.lastUpdated
    /\ systemA.name # systemB.name
    /\ result.name = systemA.name

\* C7: in a two-source merge the name entry is flagged exactly when the two
\* names differ; with equal names its source is "both" and no value pair is
\* attached; with differing names its source is the source whose name is
\* the merged name, and systemAValue/systemBValue hold the two names.
C7_NameConflictIffDiffer ==
    Merged /\ BothPresent =>
        LET m == result.metadata.fields["name"]
        IN  /\ m.conflict <=> systemA.name # systemB.name
            /\ ~m.conflict => m = [source |-> BOTH, conflict |-> FALSE]
            /\ m.conflict =>
                 /\ m.source \in {SYSTEM_A, SYSTEM_B}
                 /\ m.source = SYSTEM_A => result.name = systemA.name
                 /\ m.source = SYSTEM_B => result.name = systemB.name
                 /\ m.systemAValue = systemA.name
                 /\ m.systemBValue = systemB.name

C7_Witness ==
    /\ Merged /\ BothPresent
    /\ systemA.name # systemB.name
    /\ systemB.lastUpdated > systemA.lastUpdated
    /\ result.metadata.fields["name"].conflict
    /\ result.metadata.fields["name"].source = SYSTEM_B

\* C8: every two-source merge has sources = [system_a, system_b] in that
\* order, isPartial false, both identifiers set, and conflictsDetected equal
\* to the OR of the conflict flags of all entries of fields, which is true
\* exactly when the name or the address entry is flagged.
C8_BothSourcesMetadata ==
    Merged /\ BothPresent =>
        LET md == result.metadata
        IN  /\ md.sources = <<SYSTEM_A, SYSTEM_B>>
            /\ ~md.isPartial
            /\ result.identifiers =
                 [systemAId |-> systemA.id, systemBUuid |-> systemB.id]
            /\ md.conflictsDetected <=>
                 \E f \in DOMAIN md.fields : md.fields[f].conflict
            /\ md.conflictsDetected <=>
                 (md.fields["name"].conflict \/ md.fields["address"].conflict)

C8_Witness ==
    /\ Merged /\ BothPresent
    /\ result.metadata.conflictsDetected
    /\ ~result.metadata.fields["name"].conflict
    /\ result.metadata.fields["address"].conflict
    /\ "phone" \in DOMAIN result.metadata.fields

-----------------------------------------------------------------------------
(* Properties of diff *)

ComparedFields == {"name", "address", "phone", "contractStartDate", "contractType"}

\* the positions of matchedFields / conflicts that name field f
MatchedAt(f) ==
    {i \in DOMAIN result.matchedFields : result.matchedFields[i] = f}
ConflictsAt(f) ==
    {i \in DOMAIN result.conflicts : result.conflicts[i].field = f}

\* C9: in a diff, a compared field is in neither matchedFields nor conflicts
\* exactly when it is null on both sides; otherwise it is in exactly one of
\* them, once: in matchedFields when the two values are equal, and in
\* conflicts, with both values (a missing side as null), when they are not.
C9_DiffFieldClassification ==
    Diffed =>
        \A f \in ComparedFields :
            LET av == systemA[f]
                bv == systemB[f]
            IN  /\ (MatchedAt(f) = {} /\ ConflictsAt(f) = {})
                       <=> (av = NULL /\ bv = NULL)
                /\ ~(av = NULL /\ bv = NULL) =>
                     /\ Cardinality(MatchedAt(f)) + Cardinality(ConflictsAt(f)) = 1
                     /\ MatchedAt(f) # {} <=> av = bv
                     /\ \A i \in ConflictsAt(f) :
                            /\ result.conflicts[i].systemAValue = av
                            /\ result.conflicts[i].systemBValue = bv

C9_Witness ==
    /\ Diffed
    /\ systemA.phone = "+49 111" /\ systemB.phone = NULL
    /\ systemA.contractType = NULL /\ systemB.contractType = NULL
    /\ systemA.address = systemB.address /\ systemA.address # NULL
    /\ ConflictsAt("phone") # {}
    /\ MatchedAt("address") # {}
    /\ MatchedAt("contractType") = {} /\ ConflictsAt("contractType") = {}

\* C10: all conflict entries of one diff carry the same newerSource: system_a
\* when A.lastUpdated is not earlier than B.lastUpdated (so on a tie), and
\* system_b only when B.lastUpdated is strictly later.
C10_NewerSourceTieFavorsA ==
    Diffed =>
        \A i \in DOMAIN result.conflicts :
            result.conflicts[i].newerSource =
                IF systemB.lastUpdated > systemA.lastUpdated
                THEN SYSTEM_B ELSE SYSTEM_A

C10_Witness ==
    /\ Diffed
    /\ systemA.lastUpdated = systemB.lastUpdated
    /\ Len(result.conflicts) >= 2
    /\ \A i \in DOMAIN result.conflicts :
           result.conflicts[i].newerSource = SYSTEM_A

\* the field names of the conflict entries, in order
ConflictFields == [i \in DOMAIN result.conflicts |-> result.conflicts[i].field]

\* C11: every diff result has status conflicts_found exactly when conflicts
\* is non-empty and in_sync otherwise; it is never single_source_only, has
\* no presentIn, and the first entry of matchedFields is email.
C11_DiffStatusIffConflicts ==
    Diffed =>
        /\ result.status = "conflicts_found" <=> Len(result.conflicts) > 0
        /\ result.status = "in_sync" <=> Len(result.conflicts) = 0
        /\ result.status # "single_source_only"
        /\ "presentIn" \notin DOMAIN result
        /\ Len(result.matchedFields) >= 1
        /\ result.matchedFields[1] = "email"

C11_Witness ==
    /\ Diffed
    /\ Len(result.conflicts) = 1
    /\ result.status = "conflicts_found"
    /\ result.matchedFields[1] = "email"
    /\ Len(result.matchedFields) = 5

\* the records of the scenario of C12: A has name, address and both contract
\* fields but no phone; B has another name, another address and a phone but
\* no contract fields; B is the newer record
SophieScenario ==
    /\ systemA.address # NULL /\ systemB.address # NULL
    /\ systemA.name # systemB.name
    /\ systemA.address # systemB.address
    /\ systemA.contractStartDate # NULL /\ systemA.contractType # NULL
    /\ systemA.phone = NULL /\ systemB.phone # NULL
    /\ systemB.contractStartDate = NULL /\ systemB.contractType = NULL
    /\ systemB.lastUpdated > systemA.lastUpdated

\* C12 as stated: in the scenario diff reports conflicts_found with conflict
\* entries for name, address and phone only (the contract fields are skipped),
\* each with newerSource system_b.
C12_ScenarioThreeConflicts ==
    Diffed /\ SophieScenario =>
        /\ result.status = "conflicts_found"
        /\ ConflictFields = <<"name", "address", "phone">>
        /\ \A i \in DOMAIN result.conflicts :
               result.conflicts[i].newerSource = SYSTEM_B

\* C12 as amended: in the scenario diff reports conflicts_found with conflict
\* entries for all five fields; the entries of contractStartDate and
\* contractType carry A's value and null for B (a field is skipped only when
\* it is null on both sides); each entry has newerSource system_b.
C12_ScenarioFiveConflicts ==
    Diffed /\ SophieScenario =>
        /\ result.status = "conflicts_found"
        /\ ConflictFields =
             <<"name", "address", "phone", "contractStartDate", "contractType">>
        /\ result.conflicts[4].systemAValue = systemA.contractStartDate
        /\ result.conflicts[4].systemBValue = NULL
        /\ result.conflicts[5].systemAValue = systemA.contractType
        /\ result.conflicts[5].systemBValue = NULL
        /\ result.matchedFields = <<"email">>
        /\ \A i \in DOMAIN result.conflicts :
               result.conflicts[i].newerSource = SYSTEM_B

C12_Witness ==
    /\ Diffed /\ SophieScenario
    /\ systemA.contractStartDate = "2020-01-01"
    /\ systemA.contractType = "basic"
    /\ systemB.phone = "+49 111"
    /\ Len(result.conflicts) = 5

-----------------------------------------------------------------------------
(* Properties of the use cases, checked under UcSpec *)

Returned(o) == pc = "done" /\ op = o
BothLookupsReturned == callA.st = "fulfilled" /\ callB.st = "fulfilled"
BothLookupsAbsent ==
    /\ BothLookupsReturned
    /\ callA.val = NoCustomer
    /\ callB.val = NoCustomer
IsNotFound == result.kind = "error" /\ result.error = "CustomerNotFoundException"

\* C13: GetByEmail and Sync fail with NotFound if and only if both
\* findByEmail lookups returned null; in that case no call to the merge
\* service (merge or diff) was made; when both lookups returned and at least
\* one returned a record, the use case returns a result.
C13_NotFoundIffBothAbsent ==
    (Returned("getByEmail") \/ Returned("sync")) =>
        /\ IsNotFound <=> BothLookupsAbsent
        /\ BothLookupsAbsent =>
               /\ engine = <<>>
               /\ result = CustomerNotFound(toLowerCaseTrim(input))
        /\ (BothLookupsReturned /\ ~BothLookupsAbsent) => result.kind = "ok"

C13_Witness ==
    /\ Returned("getByEmail")
    /\ input = "  Max@Example.DE  "
    /\ BothLookupsAbsent
    /\ rowsA["lisa@example.de"] # NoRow
    /\ result = CustomerNotFound("max@example.de")

\* the emails of a list of customers
EmailsOf(customers) == {customers[i].email : i \in DOMAIN customers}

\* a source supplied a record for the email to the search: its name search
\* returned one, or its cross-reference lookup set one
SuppliedA(e) ==
    \/ e \in EmailsOf(callA.val)
    \/ [side |-> SYSTEM_A, email |-> e, outcome |-> "record"] \in crossRef
SuppliedB(e) ==
    \/ e \in EmailsOf(callB.val)
    \/ [side |-> SYSTEM_B, email |-> e, outcome |-> "record"] \in crossRef

SearchReturned == Returned("search") /\ result.kind = "ok"

\* C14: a unified record returned by GetByEmail, and each record returned by
\* the search after cross-referencing, has isPartial = TRUE iff exactly one
\* of the two sources supplied a record for its email, iff metadata.sources
\* has one element.
C14_PartialIffExactlyOneSource ==
    /\ (Returned("getByEmail") /\ result.kind = "ok") =>
          /\ result.metadata.isPartial <=>
                ((callA.val = NoCustomer) # (callB.val = NoCustomer))
          /\ result.metadata.isPartial <=> (Len(result.metadata.sources) = 1)
    /\ SearchReturned =>
          \A i \in DOMAIN result.list :
              LET r == result.list[i]
              IN  /\ r.metadata.isPartial <=>
                        (SuppliedA(r.email) # SuppliedB(r.email))
                  /\ r.metadata.isPartial <=> (Len(r.metadata.sources) = 1)
                  /\ (SuppliedA(r.email) /\ SuppliedB(r.email)) =>
                        ~r.metadata.isPartial

C14_Witness ==
    /\ SearchReturned
    /\ \E i \in DOMAIN result.list :
          /\ result.list[i].metadata.isPartial
          /\ [side |-> SYSTEM_B, email |-> result.list[i].email,
              outcome |-> "absent"] \in crossRef
    /\ \E i \in DOMAIN result.list : ~result.list[i].metadata.isPartial

\* C15: when exactly one findByEmail lookup returned a record, Sync returns
\* status single_source_only, presentIn the source that has it, lastUpdated
\* with that side's timestamp and null for the other side, no conflicts and
\* no matched fields; diff is not called.
C15_SingleSourceOnly ==
    (Returned("sync") /\ BothLookupsReturned) =>
        /\ (callA.val # NoCustomer /\ callB.val = NoCustomer) =>
              /\ result.status = "single_source_only"
              /\ result.presentIn = SYSTEM_A
              /\ result.lastUpdated =
                    [systemA |-> toISOString(callA.val.lastUpdated),
                     systemB |-> NULL]
              /\ result.conflicts = <<>>
              /\ result.matchedFields = <<>>
              /\ engine = <<>>
        /\ (callA.val = NoCustomer /\ callB.val # NoCustomer) =>
              /\ result.status = "single_source_only"
              /\ result.presentIn = SYSTEM_B
              /\ result.lastUpdated =
                    [systemA |-> NULL,
                     systemB |-> toISOString(callB.val.lastUpdated)]
              /\ result.conflicts = <<>>
              /\ result.matchedFields = <<>>
              /\ engine = <<>>

C15_Witness ==
    /\ Returned("sync")
    /\ BothLookupsReturned
    /\ callA.val = NoCustomer
    /\ callB.val # NoCustomer
    /\ rowsA[toLowerCaseTrim(input)] = NoRow
    /\ result.presentIn = SYSTEM_B
    /\ result.lastUpdated.systemA = NULL

SyncReturned == Returned("sync") /\ result.kind = "ok"
Range(seq) == {seq[i] : i \in DOMAIN seq}

\* C16 as stated: every result Sync returns, single_source_only included,
\* has email among its matchedFields.
C16_EmailAlwaysMatched ==
    SyncReturned => "email" \in Range(result.matchedFields)

\* C16 as amended: a result produced by diff (in_sync or conflicts_found) has
\* email as the first of its matchedFields; a single_source_only result
\* returned by Sync has no matched fields at all.
C16_EmailMatchedByDiffOnly ==
    SyncReturned =>
        /\ result.status \in {"in_sync", "conflicts_found"} =>
              /\ result.matchedFields # <<>>
              /\ result.matchedFields[1] = "email"
        /\ result.status = "single_source_only" => result.matchedFields = <<>>
        /\ result.status = "single_source_only" <=>
              ((callA.val = NoCustomer) # (callB.val = NoCustomer))

C16_Witness ==
    /\ SyncReturned
    /\ result.status = "single_source_only"
    /\ result.presentIn = SYSTEM_A
    /\ result.matchedFields = <<>>

\* the search's first call found the email on the one side only and the
\* cross-reference lookup of the other side came back with a record
RecoveredFromA(e) ==
    /\ e \in EmailsOf(callB.val) /\ e \notin EmailsOf(callA.val)
    /\ [side |-> SYSTEM_A, email |-> e, outcome |-> "record"] \in crossRef
RecoveredFromB(e) ==
    /\ e \in EmailsOf(callA.val) /\ e \notin EmailsOf(callB.val)
    /\ [side |-> SYSTEM_B, email |-> e, outcome |-> "record"] \in crossRef

\* C17: when one source's name search returned a record for an email that
\* the other's name search missed and the other source's findByEmail
\* returned a record for it, the unified record of that email has sources
\* [system_a, system_b], isPartial FALSE, the contract fields of A's row and
\* the phone of B's row.
C17_CrossReferenceMerges ==
    SearchReturned =>
        \A i \in DOMAIN result.list :
            LET r == result.list[i]
            IN  (RecoveredFromA(r.email) \/ RecoveredFromB(r.email)) =>
                    /\ r.metadata.sources = <<SYSTEM_A, SYSTEM_B>>
                    /\ r.metadata.isPartial = FALSE
                    /\ r.contractStartDate = rowsA[r.email].contractStartDate
                    /\ r.contractType = rowsA[r.email].contractType
                    /\ r.phone = rowsB[r.email].phone
                    /\ r.identifiers = [systemAId |-> rowsA[r.email].id,
                                        systemBUuid |-> rowsB[r.email].uuid]

C17_Witness ==
    /\ SearchReturned
    /\ input = "Mueller"
    /\ \E i \in DOMAIN result.list :
          /\ RecoveredFromA(result.list[i].email)
          /\ result.list[i].metadata.sources = <<SYSTEM_A, SYSTEM_B>>
          /\ result.list[i].contractType = "basic"
          /\ result.list[i].phone = "+49 111"

\* C18: the search returns one unified record per distinct email of the
\* union of the two name searches: no email twice, none dropped, none added
\* by the cross-reference; two empty searches give the empty list.
C18_OneResultPerDistinctEmail ==
    SearchReturned =>
        LET union == EmailsOf(callA.val) \cup EmailsOf(callB.val)
        IN  /\ Len(result.list) = Cardinality(union)
            /\ EmailsOf(result.list) = union
            /\ \A i, j \in DOMAIN result.list :
                  result.list[i].email = result.list[j].email => i = j
            /\ (callA.val = <<>> /\ callB.val = <<>>) => result.list = <<>>

C18_Witness ==
    /\ SearchReturned
    /\ Len(callA.val) = 2
    /\ Len(callB.val) = 1
    /\ Len(result.list) = 2
    /\ \E c \in crossRef : c.side = SYSTEM_B /\ c.outcome = "record"

\* the call to a source failed with an error underneath the adapter
FailedA == dbOutcome = "throws"
FailedB == httpOutcome \in {"error", "timeout"}

\* C19: a source lookup that fails with an error is treated like one that
\* returns absent: when one source's call fails and the other returns data,
\* GetByEmail, Sync and the search return what they return when the failing
\* source has no data; when both fail, GetByEmail and Sync fail with NotFound.
C19_ErrorTreatedAsAbsent ==
    /\ (Returned("getByEmail") /\ FailedA /\ callB.st = "fulfilled") =>
          result = getCustomerByEmail(toLowerCaseTrim(input), NoCustomer, callB.val)
    /\ (Returned("getByEmail") /\ FailedB /\ callA.st = "fulfilled") =>
          result = getCustomerByEmail(toLowerCaseTrim(input), callA.val, NoCustomer)
    /\ (Returned("sync") /\ FailedA /\ callB.st = "fulfilled") =>
          result = syncCustomer(toLowerCaseTrim(input), NoCustomer, callB.val)
    /\ (Returned("sync") /\ FailedB /\ callA.st = "fulfilled") =>
          result = syncCustomer(toLowerCaseTrim(input), callA.val, NoCustomer)
    /\ (Returned("search") /\ FailedA /\ callB.st = "fulfilled") =>
          /\ result.kind = "ok"
          /\ EmailsOf(result.list) = EmailsOf(callB.val)
    /\ (Returned("search") /\ FailedB /\ callA.st = "fulfilled") =>
          /\ result.kind = "ok"
          /\ EmailsOf(result.list) = EmailsOf(callA.val)

\* C20: CheckHealth returns the pair {systemA, systemB}; each value is TRUE
\* iff that source's own probe succeeded, whatever the other probe did, and
\* CheckHealth never fails.
C20_HealthPairOfProbes ==
    Returned("health") =>
        /\ result.kind = "ok"
        /\ result.systemA = (dbOutcome = "ok")
        /\ result.systemB = (httpOutcome = "ok")

C20_Witness ==
    /\ Returned("health")
    /\ dbOutcome = "throws"
    /\ httpOutcome = "ok"
    /\ result = [kind |-> "ok", systemA |-> FALSE, systemB |-> TRUE]


Settled(p) == p.st \in {"fulfilled", "rejected"}
CallsTo(side, fn) ==
    {i \in DOMAIN issued : issued[i].side = side /\ issued[i].fn = fn}

\* C21: in a CheckHealth invocation each source's isHealthy probe is issued
\* exactly once, and both probes have been started before either completes:
\* no probe has settled while the other has not been started.
C21_ProbesIssuedOnceTogether ==
    op = "health" =>
        /\ Cardinality(CallsTo(SYSTEM_A, "isHealthy")) <= 1
        /\ Cardinality(CallsTo(SYSTEM_B, "isHealthy")) <= 1
        /\ pc # "start" =>
              /\ issued = <<SourceCall(SYSTEM_A, "isHealthy", NULL),
                            SourceCall(SYSTEM_B, "isHealthy", NULL)>>
              /\ callA # Idle
              /\ callB # Idle
        /\ Settled(callA) => CallsTo(SYSTEM_B, "isHealthy") # {}
        /\ Settled(callB) => CallsTo(SYSTEM_A, "isHealthy") # {}

C21_Witness ==
    /\ op = "health"
    /\ pc = "awaitBoth"
    /\ callA = Pending
    /\ Settled(callB)
    /\ Len(issued) = 2


\* C22: when the email given to GetByEmail or Sync does not match the email
\* pattern after lower-casing and trimming, the operation is rejected as
\* invalid and no findByEmail call is made on either source; when it does
\* match, both sources are queried with the lower-cased, trimmed email.
C22_InvalidEmailRejectedBeforeLookup ==
    op \in FindOps =>
        /\ ~Email_isValid(toLowerCaseTrim(input)) =>
              /\ issued = <<>>
              /\ pc = "done" => result = BadRequest(input)
        /\ (Email_isValid(toLowerCaseTrim(input)) /\ pc # "start") =>
              issued = startBoth("findByEmail", toLowerCaseTrim(input))


\* what a failed call of the operation's method must give: null for
\* findByEmail, [] for searchByName, false for isHealthy
FailureValue ==
    CASE op \in FindOps -> NoCustomer
      [] op = "search" -> <<>>
      [] OTHER -> FALSE

\* C23: both source implementations turn every failure of the store or the
\* transport into a result value (findByEmail null, searchByName [], isHealthy
\* false); no call of a source ever rejects towards the use case.
C23_SourcesNeverThrow ==
    /\ callA.st # "rejected"
    /\ callB.st # "rejected"
    /\ \A c \in crossRef : c.outcome # "caught"
    /\ (Settled(callA) /\ FailedA) => callA = Fulfilled(FailureValue)
    /\ (Settled(callB) /\ FailedB) => callB = Fulfilled(FailureValue)


\* C24: the latency the embedded mock adds to a response is between 200 and
\* 500 ms, below the client's 5000 ms lookup timeout and 3000 ms probe
\* timeout, so a lookup of an email the mock holds is answered with the
\* record: GetByEmail for an email held by both systems reports both sources.
C24_MockLatencyBelowTimeouts ==
    /\ latency # 0 =>
          /\ latency \in 200..500
          /\ latency < TIMEOUT_MS
          /\ latency < PingTimeoutMs
          /\ httpOutcome = "ok"
    /\ (/\ Returned("getByEmail")
        /\ result.kind = "ok"
        /\ rowAt(rowsA, toLowerCaseTrim(input)) # NoRow
        /\ rowAt(rowsB, toLowerCaseTrim(input)) # NoRow) =>
          /\ result.metadata.sources = <<SYSTEM_A, SYSTEM_B>>
          /\ result.metadata.isPartial = FALSE


\* the findByEmail calls the search has made to `side` for email e
CrossRefCallsTo(side, e) ==
    {i \in DOMAIN issued : /\ issued[i].fn = "findByEmail"
                           /\ issued[i].side = side
                           /\ issued[i].arg = e}
FindByEmailCalls == {i \in DOMAIN issued : issued[i].fn = "findByEmail"}

\* C25: in the search no findByEmail is issued before both name searches
\* have completed; afterwards exactly one findByEmail has been issued to a
\* source for an email iff the email is in the union of the two search
\* results and that source's search did not return it - none for an email
\* both returned, none when both are empty - and no merge is made while a
\* cross-reference lookup is still pending.
C25_CrossReferenceLookups ==
    op = "search" =>
        /\ pc \in {"start", "awaitBoth"} => FindByEmailCalls = {}
        /\ (pc \in {"awaitCrossRef", "done"} /\ BothLookupsReturned) =>
              LET union == EmailsOf(callA.val) \cup EmailsOf(callB.val)
              IN  /\ \A e \in StoreEmails :
                        /\ Cardinality(CrossRefCallsTo(SYSTEM_A, e)) =
                              IF e \in union \ EmailsOf(callA.val) THEN 1 ELSE 0
                        /\ Cardinality(CrossRefCallsTo(SYSTEM_B, e)) =
                              IF e \in union \ EmailsOf(callB.val) THEN 1 ELSE 0
                  /\ \A i \in FindByEmailCalls : issued[i].arg \in union
                  /\ union = {} => FindByEmailCalls = {}
                  /\ Cardinality(crossRef) = Cardinality(FindByEmailCalls)
        /\ engine # <<>> => \A c \in crossRef : c.outcome # "pending"

C25_Witness ==
    /\ SearchReturned
    /\ engine # <<>>
    /\ Cardinality(FindByEmailCalls) = 2
    /\ \E c \in crossRef : c.outcome = "caught"
    /\ \E c \in crossRef : c.outcome = "record"


\* what each source's findByEmail gave, read from the recorded outcomes of
\* the store and the transport and not from the order of completion
LookedUpA ==
    SystemARepository_findByEmail(rowsA, toLowerCaseTrim(input), dbOutcome)
LookedUpB ==
    SystemBClient_findByEmail(rowsB, toLowerCaseTrim(input), httpOutcome)

\* the record a source supplied to the search for email e, or null
SearchRecordA(e) ==
    IF SuppliedA(e) THEN CustomerAMapper_toDomain(rowsA[e]) ELSE NoCustomer
SearchRecordB(e) ==
    IF SuppliedB(e) THEN CustomerBMapper_toDomain(rowsB[e]) ELSE NoCustomer

\* the emails of System A's search result in its order, followed by those
\* of System B's that A's lacks
SearchEmailOrder ==
    LET ea == [i \in DOMAIN callA.val |-> callA.val[i].email]
        eb == [i \in DOMAIN callB.val |-> callB.val[i].email]
    IN  ea \o SelectSeq(eb, LAMBDA e : e \notin Range(ea))

\* C26: the merge service is called only after both source calls and, in
\* the search, all cross-reference lookups have completed; and what
\* GetByEmail, Sync and the search return - the order of the search's records
\* included - is determined by what the calls gave, whatever the order in
\* which they completed.
C26_ResultIndependentOfCompletionOrder ==
    /\ engine # <<>> =>
          /\ callA.st = "fulfilled" /\ callB.st = "fulfilled"
          /\ \A c \in crossRef : c.outcome # "pending"
    /\ (pc = "done" /\ op \in FindOps /\ issued # <<>>) =>
          result = IF dbOutcome = "throws" THEN Propagated("QueryFailedError")
                   ELSE IF op = "sync"
                        THEN syncCustomer(toLowerCaseTrim(input),
                                          LookedUpA.val, LookedUpB.val)
                   ELSE getCustomerByEmail(toLowerCaseTrim(input),
                                           LookedUpA.val, LookedUpB.val)
    /\ (Returned("search") /\ dbOutcome = "throws") =>
          result = Propagated("QueryFailedError")
    /\ SearchReturned =>
          /\ [i \in DOMAIN result.list |-> result.list[i].email] = SearchEmailOrder
          /\ \A i \in DOMAIN result.list :
                LET a == SearchRecordA(result.list[i].email)
                    b == SearchRecordB(result.list[i].email)
                IN  result.list[i] = markPartial(merge(a, b), a, b)

C26_Witness ==
    /\ SearchReturned
    /\ Len(result.list) = 2
    /\ Len(order) = 4
    /\ order[1] = SettledCall(SYSTEM_B, NULL)
    /\ order[3] = SettledCall(SYSTEM_B, "lisa@example.de")
    /\ order[4] = SettledCall(SYSTEM_B, "max@example.de")


AllIssuedSettled ==
    /\ callA = Idle \/ Settled(callA)
    /\ callB = Idle \/ Settled(callB)
    /\ \A c \in crossRef : c.outcome # "pending"

\* C27: each operation eventually returns a result or an error when every
\* call it issues eventually settles; and an operation has completed only
\* when every call it issued has settled (a call that never settles stalls
\* the operation, which has no timeout of its own).
C27_CompletesIffCallsSettle ==
    /\ <>(pc = "done")
    /\ [](pc = "done" => AllIssuedSettled)


\* C28: whatever the sources answer, no use case calls merge (or diff) with
\* both inputs absent, and none ends in the merge service's "Cannot merge"
\* error.
C28_MergeNeverBothAbsent ==
    /\ \A i \in DOMAIN engine :
          /\ ~(engine[i].a = NoCustomer /\ engine[i].b = NoCustomer)
          /\ engine[i].fn = "diff" =>
                (engine[i].a # NoCustomer /\ engine[i].b # NoCustomer)
    /\ result # MergeError
    /\ SearchReturned =>
          \A i \in DOMAIN result.list : result.list[i] # MergeError

C28_Witness ==
    /\ SearchReturned
    /\ [side |-> SYSTEM_A, email |-> "max@example.de", outcome |-> "caught"]
          \in crossRef
    /\ \E i \in DOMAIN engine :
          /\ engine[i].fn = "merge"
          /\ engine[i].a = NoCustomer
          /\ engine[i].b.email = "max@example.de"


\* the argument of merge that came from source S
RecordOf(S) == IF S = SYSTEM_A THEN systemA ELSE systemB

\* C29: in a merge of two present records, for each of phone,
\* contractStartDate and contractType: when metadata.fields names a winning
\* source for the field the merged value is that source's value, and the
\* field has no entry only when its merged value is absent (null).
C29_ProvenanceMatchesValues ==
    Merged /\ BothPresent =>
        \A f \in {"phone", "contractStartDate", "contractType"} :
            IF f \in DOMAIN result.metadata.fields
            THEN result[f] = RecordOf(result.metadata.fields[f].source)[f]
            ELSE result[f] = NULL


\* what merge returns for the pair that was diffed
MergeOfPair == merge(systemA, systemB)

\* C30: merge and diff agree on a pair of present records: whenever merge
\* reports conflictsDetected, diff's status is conflicts_found; every field
\* merge flags (name, address) has one conflict entry in diff with the same
\* two values; and for a differing name diff's newerSource is the source
\* merge records as the winner of name.
C30_MergeAndDiffAgree ==
    (Diffed /\ MergeOfPair.metadata.conflictsDetected) =>
        /\ result.status = "conflicts_found"
        /\ \A f \in DOMAIN MergeOfPair.metadata.fields :
              MergeOfPair.metadata.fields[f].conflict =>
                  /\ f \in {"name", "address"}
                  /\ Cardinality(ConflictsAt(f)) = 1
                  /\ \A i \in ConflictsAt(f) :
                        /\ result.conflicts[i].systemAValue =
                              MergeOfPair.metadata.fields[f].systemAValue
                        /\ result.conflicts[i].systemBValue =
                              MergeOfPair.metadata.fields[f].systemBValue
                        /\ result.conflicts[i].systemAValue = systemA[f]
                        /\ result.conflicts[i].systemBValue = systemB[f]
        /\ MergeOfPair.metadata.fields["name"].conflict =>
              \A i \in ConflictsAt("name") :
                  result.conflicts[i].newerSource =
                      MergeOfPair.metadata.fields["name"].source

C30_Witness ==
    /\ Diffed
    /\ MergeOfPair.metadata.fields["name"].conflict
    /\ MergeOfPair.metadata.fields["address"].conflict
    /\ systemA.lastUpdated = systemB.lastUpdated
    /\ MergeOfPair.metadata.fields["name"].source = SYSTEM_A
    /\ result.conflicts[1].newerSource = SYSTEM_A

=============================================================================
